---------------------------- MODULE Spec2Model ----------------------------
(***************************************************************************)
(* GoPlaces: the generation relay (server/src/index.ts), its coordinate    *)
(* formatter convertToDMS, and the client's photo cache (client/src/       *)
(* App.tsx).                                                               *)
(*                                                                         *)
(* Six specifications share the variables below:                           *)
(*   Spec            the relay handling concurrent POST /api/generate      *)
(*                   requests                                              *)
(*   SpecOneRequest  one request, every shape of generation result         *)
(*   SpecDMS         convertToDMS applied to decimal coordinate strings    *)
(*   SpecClient      the client's upload / cache / generate state machine  *)
(*   SpecClientFair  SpecClient with the event loop running what is pending *)
(*   SpecClientReopened  SpecClient with the page opened again and again   *)
(***************************************************************************)
EXTENDS Integers, Sequences, FiniteSets, Bags, TLC

(***************************************************************************)
(* IEEE-754 double arithmetic, as far as convertToDMS uses it.             *)
(*                                                                         *)
(* A non-negative double is held exactly as a binary fixed-point number    *)
(*   [int |-> I, frac |-> <<b1, b2, ...>>]  =  I + b1/2 + b2/4 + ...       *)
(* and a signed one carries neg.  Every operation that rounds in the       *)
(* hardware rounds here (RoundToDouble: 53 significant bits, nearest,      *)
(* ties to even); subtraction of floor(x) from x is exact in both.         *)
(***************************************************************************)

\* Significant bits of a JavaScript number (IEEE-754 binary64).
MantissaBits == 53

\* The arithmetic below works on ChunkBits binary digits at a time, and a
\* decimal fraction is expanded to FracChunks such chunks before it is
\* rounded to a double: more digits than MantissaBits plus the leading zero
\* bits of the smallest non-zero fraction 1/Scale.
ChunkBits == 16
FracChunks == 5

\* Coordinates arrive as decimal strings; the string with integer value n
\* denotes the number n / Scale (four decimal places).
Scale == 10000

RECURSIVE BitLen(_)
BitLen(n) == IF n = 0 THEN 0 ELSE 1 + BitLen(n \div 2)

RECURSIVE Pow2(_)
Pow2(k) == IF k = 0 THEN 1 ELSE 2 * Pow2(k - 1)

\* The n binary digits of w (0 <= w < 2^n), most significant first.
IntToBits(w, n) == [j \in 1..n |-> (w \div Pow2(n - j)) % 2]

\* The integer whose binary digits are bits[lo..hi].
RECURSIVE BitsToInt(_, _, _)
BitsToInt(bits, lo, hi) ==
    IF lo > hi THEN 0
    ELSE IF lo = hi THEN bits[lo]
    ELSE LET mid == (lo + hi) \div 2
         IN  BitsToInt(bits, lo, mid) * Pow2(hi - mid) + BitsToInt(bits, mid + 1, hi)

\* The first c * ChunkBits binary digits of r/S (0 <= r < S) and the
\* remainder left: long division, one chunk of digits per step.
RECURSIVE Expand(_, _, _)
Expand(r, S, c) ==
    IF c = 0 THEN [bits |-> <<>>, rem |-> r]
    ELSE LET t    == r * Pow2(ChunkBits)
             rest == Expand(t % S, S, c - 1)
         IN  [bits |-> IntToBits(t \div S, ChunkBits) \o rest.bits,
              rem  |-> rest.rem]

\* Number of leading zero bits of a bit string (its length when all zero).
LeadingZeros(bits) ==
    LET ones == {i \in 1..Len(bits) : bits[i] = 1}
    IN  IF ones = {} THEN Len(bits)
        ELSE (CHOOSE i \in ones : \A j \in ones : i <= j) - 1

\* Trailing zero bits carry no value: drop them.
Trim(bits) ==
    LET ones == {i \in 1..Len(bits) : bits[i] = 1}
    IN  IF ones = {} THEN <<>>
        ELSE SubSeq(bits, 1, CHOOSE i \in ones : \A j \in ones : j <= i)

\* I + 0.bits plus one unit in the last place of bits.
IncrementLast(I, bits) ==
    LET zeros == {j \in 1..Len(bits) : bits[j] = 0}
    IN  IF zeros = {} THEN [int |-> I + 1, frac |-> <<>>]
        ELSE LET j == CHOOSE z \in zeros : \A y \in zeros : y <= z
             IN  [int |-> I,
                  frac |-> [i \in 1..j |-> IF i = j THEN 1 ELSE bits[i]]]

\* The double nearest to I + 0.bits (+ something below the last bit when
\* sticky): keep MantissaBits significant bits, round to nearest, ties to
\* even.
RoundToDouble(I, bits, sticky) ==
    LET keep  == IF I > 0 THEN MantissaBits - BitLen(I)
                 ELSE LeadingZeros(bits) + MantissaBits
    IN  IF Len(bits) <= keep
        THEN [int |-> I, frac |-> Trim(bits)]
        ELSE LET kept  == SubSeq(bits, 1, keep)
                 guard == bits[keep + 1]
                 below == sticky \/ \E i \in (keep + 2)..Len(bits) : bits[i] = 1
                 lsb   == IF keep = 0 THEN I % 2 ELSE bits[keep]
                 up    == guard = 1 /\ (below \/ lsb = 1)
                 r     == IF up THEN IncrementLast(I, kept)
                          ELSE [int |-> I, frac |-> kept]
             IN  [int |-> r.int, frac |-> Trim(r.frac)]

\* parseFloat of the decimal string denoting n / Scale: the nearest double.
parseFloat(n) ==
    LET a == IF n < 0 THEN -n ELSE n
        e == Expand(a % Scale, Scale, FracChunks)
        d == RoundToDouble(a \div Scale, e.bits, e.rem # 0)
    IN  [neg |-> n < 0, int |-> d.int, frac |-> d.frac]

\* 0.bits[lo..] * 60, exactly: the integer part and the product bits.  The
\* chunk at lo takes the carry out of the chunks to its right.
RECURSIVE MulFrom60(_, _)
MulFrom60(bits, lo) ==
    IF lo > Len(bits) THEN [int |-> 0, frac |-> <<>>]
    ELSE LET hi == IF lo + ChunkBits - 1 < Len(bits)
                   THEN lo + ChunkBits - 1 ELSE Len(bits)
             n  == hi - lo + 1
             t  == MulFrom60(bits, hi + 1)
             v  == BitsToInt(bits, lo, hi) * 60 + t.int
         IN  [int  |-> v \div Pow2(n),
              frac |-> IntToBits(v % Pow2(n), n) \o t.frac]

\* 0.bits * 60, exactly: the integer part and the fraction bits.
MulFrac60(bits) == MulFrom60(bits, 1)

\* fl(x * 60) for a double 0 <= x < 1 given by its fraction bits.
Times60(bits) ==
    LET p == MulFrac60(bits) IN RoundToDouble(p.int, p.frac, FALSE)

\* Math.round of a non-negative double: nearest integer, halves upwards.
MathRound(x) ==
    x.int + (IF x.frac # <<>> /\ x.frac[1] = 1 THEN 1 ELSE 0)

\* AxisDMS with the minutes taken from the whole value, the degrees not
\* subtracted first.
AxisDMS_DegreesNotSubtracted(v) ==
    LET minRaw == Times60(v.frac)
        secRaw == Times60(minRaw.frac)
    IN  [deg |-> v.int, min |-> v.int * 60 + minRaw.int,
         sec |-> MathRound(secRaw)]

\* One axis of convertToDMS: Math.abs, Math.floor, the two minute/second
\* products.  abs - deg, and (abs - deg) * 60 - min, are exact.
AxisDMS(v) ==
    LET deg    == v.int
        minRaw == Times60(v.frac)
        min    == minRaw.int
        secRaw == Times60(minRaw.frac)
    IN  [deg |-> deg, min |-> min, sec |-> MathRound(secRaw)]

\* lat >= 0 (or lng >= 0): a negative double other than -0.
IsNegative(v) == v.neg /\ (v.int # 0 \/ v.frac # <<>>)

convertToDMS(lat, lng) ==
    LET la == AxisDMS(lat)
        lo == AxisDMS(lng)
    IN  [latDeg |-> la.deg, latMin |-> la.min, latSec |-> la.sec,
         latDir |-> IF IsNegative(lat) THEN "S" ELSE "N",
         lngDeg |-> lo.deg, lngMin |-> lo.min, lngSec |-> lo.sec,
         lngDir |-> IF IsNegative(lng) THEN "W" ELSE "E"]

(***************************************************************************)
(* State.                                                                  *)
(*   req       per request of POST /api/generate: the handler's position,  *)
(*             the request as sent, multer's req.file, the response object *)
(*             and the effects the handler has performed, in order         *)
(*   disk      the uploads/ directory: temp path -> bytes                  *)
(*   dmsLat, dmsLng, dmsOut   an application of convertToDMS               *)
(*   photo     the file the user has at hand                               *)
(*   selectedLocation .. error   the App component's React state           *)
(*   localStorage   the item 'goplaces_uploaded_image'                     *)
(*   tasks     the client's asynchronous work not yet run                  *)
(*   timers    the client's timers set and not yet fired                   *)
(***************************************************************************)
VARIABLES req, disk, dmsLat, dmsLng, dmsOut, photo,
          selectedLocation, imageFile, imagePreview, generatedImage, loading,
          error, localStorage, tasks, timers

relayVars  == <<req, disk>>
dmsVars    == <<dmsLat, dmsLng, dmsOut>>
clientVars == <<photo, selectedLocation, imageFile, imagePreview, generatedImage,
                loading, error, localStorage, tasks, timers>>
vars       == <<req, disk, dmsLat, dmsLng, dmsOut, photo,
                selectedLocation, imageFile, imagePreview, generatedImage,
                loading, error, localStorage, tasks, timers>>

\* Requests that may be in flight together, and the longest images list a
\* generation result carries.
MaxReqs == 2
MaxImages == 2

ReqIds == 1..MaxReqs

(***************************************************************************)
(* JavaScript values: undefined, strings (a string is the sequence of its  *)
(* pieces, "" is <<>>), objects and arrays.                                *)
(***************************************************************************)
Undefined == [t |-> "undefined"]
Str(v)    == [t |-> "string", v |-> v]
Truthy(x) == IF x.t = "undefined" THEN FALSE
             ELSE IF x.t = "string" THEN x.v # <<>>
             ELSE TRUE

NoFile == Undefined

\* Photos a client may send (bytes), the empty upload among them, and the
\* form's lat / lng strings (decimal degrees times Scale).
ImageSamples == {<<>>, <<255, 216, 255>>}
CoordSamples == {<<251972, 552744>>, <<-338688, 1512093>>}

RequestInputs ==
    {[lat |-> c[1], lng |-> c[2], image |-> NoFile] : c \in CoordSamples}
    \cup {[lat |-> c[1], lng |-> c[2],
           image |-> [t |-> "file", mimetype |-> "image/jpeg", bytes |-> b]]
          : c \in CoordSamples, b \in ImageSamples}

\* TempPath with every upload stored under one name.
TempPath_OneName(r) == <<"uploads", 0>>

\* multer({dest: 'uploads/'}): a fresh random file name per uploaded file.
TempPath(r) == <<"uploads", r>>

\* What the external services hand back to request r.
StoredUrl(r)    == Str(<<"https://storage/", r>>)
GenRequestId(r) == Str(<<"req-", r>>)
GenUrl(r, slot) == Str(<<"https://gen/", r, slot>>)

UrlKinds == {"undefined", "empty", "url"}
UrlOfKind(k, r, slot) ==
    IF k = "undefined" THEN Undefined
    ELSE IF k = "empty" THEN Str(<<>>)
    ELSE GenUrl(r, slot)

\* The results fal.subscribe may resolve with for request r: no data, or
\* data with an optional images list (up to maxLen entries) and an optional
\* singular image, every url either missing, "" or a real URL.
ImageLists(r, maxLen, kinds) ==
    {Undefined} \cup
    {[t |-> "array",
      v |-> [i \in 1..n |-> [t |-> "object", url |-> UrlOfKind(k[i], r, i)]]]
     : n \in 0..maxLen, k \in [1..maxLen -> kinds]}
SingleImages(r, kinds) ==
    {Undefined} \cup {[t |-> "object", url |-> UrlOfKind(k, r, 0)] : k \in kinds}
GenResults(r, maxLen, kinds) ==
    {[data |-> Undefined, requestId |-> GenRequestId(r)]} \cup
    {[data |-> [t |-> "object", images |-> im, image |-> s],
      requestId |-> GenRequestId(r)]
     : im \in ImageLists(r, maxLen, kinds), s \in SingleImages(r, kinds)}

\* Errors raised by the environment.
ReadError   == [message |-> "EIO: read failed"]
UploadError == [message |-> "storage upload failed"]
GenError    == [message |-> "generation failed"]
UnlinkError == [message |-> "EPERM: operation not permitted, unlink"]

(***************************************************************************)
(* Values of the client.  null, the places a user may select, and files.   *)
(* A File carries its name, type and bytes.  The field origin is history:  *)
(* the bytes of the file the user picked from which this value descends;   *)
(* no step of the program reads it.                                        *)
(***************************************************************************)
Null == [t |-> "null"]

Locations == {[t |-> "location", lat |-> c[1], lng |-> c[2]] : c \in CoordSamples}

\* The photos a user may bring: every byte string over ByteSamples of at
\* most MaxFileLen bytes, the empty file included.  The two byte values, one
\* of mixed bits and one of all ones, fill every base64 digit position with
\* both of a 0 and a 1 bit.
MaxFileLen == 3
ByteSamples == {77, 255}

ByteStrings == UNION {[1..k -> ByteSamples] : k \in 0..MaxFileLen}
UserFile(b) ==
    [t |-> "file", name |-> "photo.png", type |-> "image/png",
     bytes |-> b, origin |-> b]
UserFiles == {UserFile(b) : b \in ByteStrings}

\* The base64 alphabet is written as the digits 0..63, and "=" as Base64Pad.
Base64Pad == 64

\* FileReader.readAsDataURL's encoding: three bytes make four digits; a last
\* group of one or two bytes makes two or three digits and is padded.
RECURSIVE Base64Encode(_)
Base64Encode(bytes) ==
    IF Len(bytes) = 0 THEN <<>>
    ELSE IF Len(bytes) = 1
    THEN <<bytes[1] \div 4, (bytes[1] % 4) * 16, Base64Pad, Base64Pad>>
    ELSE IF Len(bytes) = 2
    THEN <<bytes[1] \div 4, (bytes[1] % 4) * 16 + bytes[2] \div 16,
           (bytes[2] % 16) * 4, Base64Pad>>
    ELSE <<bytes[1] \div 4, (bytes[1] % 4) * 16 + bytes[2] \div 16,
           (bytes[2] % 16) * 4 + bytes[3] \div 64, bytes[3] % 64>>
         \o Base64Encode(SubSeq(bytes, 4, Len(bytes)))

\* reader.result for a file: "data:" type ";base64," digits.
readAsDataURL(file) ==
    [t |-> "dataurl", mime |-> file.type, data |-> Base64Encode(file.bytes),
     origin |-> file.origin]

\* Whole groups of four digits, then a last group of two or three digits
\* whose spare low bits are dropped.
RECURSIVE DecodeDigits(_)
DecodeDigits(d) ==
    IF Len(d) = 0 THEN <<>>
    ELSE IF Len(d) = 2 THEN <<d[1] * 4 + d[2] \div 16>>
    ELSE IF Len(d) = 3
    THEN <<d[1] * 4 + d[2] \div 16, (d[2] % 16) * 16 + d[3] \div 4>>
    ELSE <<d[1] * 4 + d[2] \div 16, (d[2] % 16) * 16 + d[3] \div 4,
           (d[3] % 4) * 64 + d[4]>>
         \o DecodeDigits(SubSeq(d, 5, Len(d)))

\* The decoding fetch applies to the body of a base64 data URL: one or two
\* trailing "=" of a text whose length is a multiple of four are removed;
\* what is left must be digits only, and not 1 modulo 4 of them.
Base64Decode(data) ==
    LET n == Len(data)
        d == IF n > 0 /\ n % 4 = 0 /\ data[n] = Base64Pad
             THEN IF data[n - 1] = Base64Pad
                  THEN SubSeq(data, 1, n - 2)
                  ELSE SubSeq(data, 1, n - 1)
             ELSE data
    IN  IF Len(d) % 4 = 1 \/ \E i \in 1..Len(d) : d[i] = Base64Pad
        THEN [ok |-> FALSE]
        ELSE [ok |-> TRUE, bytes |-> DecodeDigits(d)]

\* const res = await fetch(url); const blob = await res.blob();
\* fetch rejects for a data URL whose body does not decode.
FetchBlob(url) ==
    LET d == Base64Decode(url.data)
    IN  IF d.ok
        THEN [ok |-> TRUE,
              blob |-> [type |-> url.mime, bytes |-> d.bytes, origin |-> url.origin]]
        ELSE [ok |-> FALSE]

\* A text that is no data URL is a URL relative to the page, and fetch asks
\* the page's server for it: the request fails, or the body of the answer,
\* whatever its status, becomes the blob.  ServerBodies is what the server
\* may answer with.
ServerBodies == {<<60, 104>>}
Fetched(url) ==
    IF url.t = "dataurl"
    THEN {FetchBlob(url)}
    ELSE {[ok |-> FALSE]}
         \cup {[ok |-> TRUE, blob |-> [type |-> "text/html", bytes |-> b]] :
                  b \in ServerBodies}

\* new File([blob], 'uploaded-image.jpg', { type: 'image/jpeg' })
\* (origin, the bytes of the upload a data URL was made from, is carried
\* along where there is one.)
NewFile(blob) ==
    IF "origin" \in DOMAIN blob
    THEN [t |-> "file", name |-> "uploaded-image.jpg", type |-> "image/jpeg",
          bytes |-> blob.bytes, origin |-> blob.origin]
    ELSE [t |-> "file", name |-> "uploaded-image.jpg", type |-> "image/jpeg",
          bytes |-> blob.bytes]

\* localStorage.setItem(key, value) stores String(value), null as the text
\* "null".  The storage has room for StorageQuota characters (about 5 MiB
\* in a browser), the key and the whole value counted: when they take more,
\* setItem throws QuotaExceededError and the item stays as it was.
StorageKey == "goplaces_uploaded_image"
NullText == Str(<<"null">>)
StorageQuota == 5242880
Chars(text) ==
    IF text.t = "dataurl"
    THEN Len("data:") + Len(text.mime) + Len(";base64,") + Len(text.data)
    ELSE Len(text.v[1])
setItem(item, value) ==
    LET text == IF value = Null THEN NullText ELSE value
    IN  IF Len(StorageKey) + Chars(text) > StorageQuota
        THEN item
        ELSE text

\* What 'goplaces_uploaded_image' may hold when the page is first opened:
\* nothing, a value that is no base64 text, or the data URL an earlier visit
\* stored, for the photo at hand or for another one.
InvalidItem  == [t |-> "dataurl", mime |-> "image/png", data |-> <<19>>]
EarlierPhoto == UserFile(<<255, 216>>)
StoredAtStart(file) ==
    {Null, InvalidItem, readAsDataURL(file), readAsDataURL(EarlierPhoto)}

(***************************************************************************)
(* The response object.  Express's res.json sets headers and writes the    *)
(* body; called after the headers went out it throws ERR_HTTP_HEADERS_SENT *)
(* and nothing reaches the client.                                         *)
(***************************************************************************)
NoResponse == [headersSent |-> FALSE, status |-> 0, body |-> Undefined]

Did(rq, event) == [rq EXCEPT !.trace = Append(@, event)]

resJson(rq, status, body) ==
    IF rq.res.headersSent
    THEN [rq |-> Did(rq, [op |-> "res.json", status |-> status, body |-> body,
                          sent |-> FALSE]),
          threw |-> TRUE]
    ELSE [rq |-> [Did(rq, [op |-> "res.json", status |-> status, body |-> body,
                           sent |-> TRUE])
                  EXCEPT !.res = [headersSent |-> TRUE, status |-> status,
                                  body |-> body]],
          threw |-> FALSE]

\* The catch block: answer 500 with the error's message.  When res.json
\* itself throws, the async handler's promise rejects.
Catch(rq, err) ==
    LET r == resJson(rq, 500,
                     [error |-> <<"Failed to generate image. ", err.message>>])
    IN  [r.rq EXCEPT !.pc = IF r.threw THEN "escaped" ELSE "done"]

\* ExtractImageUrl with the two sides of || exchanged: the singular image
\* first, then the list.
ExtractImageUrl_SingularFirst(result) ==
    LET data     == result.data
        images   == IF data.t = "undefined" THEN Undefined ELSE data.images
        first    == IF images.t = "undefined" THEN Undefined
                    ELSE IF Len(images.v) = 0 THEN Undefined
                    ELSE images.v[1]
        firstUrl == IF first.t = "undefined" THEN Undefined ELSE first.url
        image    == IF data.t = "undefined" THEN Undefined ELSE data.image
        imageUrl == IF image.t = "undefined" THEN Undefined ELSE image.url
    IN  IF Truthy(imageUrl) THEN imageUrl ELSE firstUrl

\* result.data?.images?.[0]?.url || result.data?.image?.url
ExtractImageUrl(result) ==
    LET data     == result.data
        images   == IF data.t = "undefined" THEN Undefined ELSE data.images
        first    == IF images.t = "undefined" THEN Undefined
                    ELSE IF Len(images.v) = 0 THEN Undefined
                    ELSE images.v[1]
        firstUrl == IF first.t = "undefined" THEN Undefined ELSE first.url
        image    == IF data.t = "undefined" THEN Undefined ELSE data.image
        imageUrl == IF image.t = "undefined" THEN Undefined ELSE image.url
    IN  IF Truthy(firstUrl) THEN firstUrl ELSE imageUrl

(***************************************************************************)
(* The handler of POST /api/generate, one operator per stretch of code     *)
(* that runs without yielding to the event loop.  Each takes the request's *)
(* record (and the disk, where it touches it) and returns the new one.     *)
(***************************************************************************)

\* upload.single('image'): multer stores the image part, if any, under a
\* fresh path and sets req.file.
MulterFile(r, input, dsk) ==
    IF input.image.t = "undefined"
    THEN [file |-> NoFile, disk |-> dsk]
    ELSE [file |-> [t |-> "file", path |-> TempPath(r),
                    mimetype |-> input.image.mimetype,
                    size |-> Len(input.image.bytes)],
          disk |-> [p \in DOMAIN dsk \cup {TempPath(r)} |->
                       IF p = TempPath(r) THEN input.image.bytes ELSE dsk[p]]]

\* Lines 48-72: the missing-file answer, then readFileSync and the call of
\* fal.storage.upload.
HandlerStart(rq, dsk, readOk) ==
    IF ~Truthy(rq.file)
    THEN [resJson(rq, 400, [error |-> <<"No image file provided">>]).rq
          EXCEPT !.pc = "done"]
    ELSE IF rq.file.path \in DOMAIN dsk /\ readOk
    THEN LET imageBuffer == dsk[rq.file.path]
             read == Did(rq, [op |-> "readFileSync", path |-> rq.file.path,
                              ok |-> TRUE])
         IN  [Did(read, [op |-> "storage.upload", data |-> imageBuffer,
                         mimetype |-> rq.file.mimetype])
              EXCEPT !.pc = "uploading"]
    ELSE Catch(Did(rq, [op |-> "readFileSync", path |-> rq.file.path,
                        ok |-> FALSE]),
               ReadError)

\* Lines 74-96: the upload resolved; build the prompt and call fal.subscribe.
OnUploadResolved(rq, uploadedImage) ==
    LET locationDMS == convertToDMS(parseFloat(rq.body.lat), parseFloat(rq.body.lng))
        resolved    == Did(rq, [op |-> "upload.resolved", url |-> uploadedImage])
    IN  [Did(resolved, [op |-> "fal.subscribe",
                        prompt |-> [location |-> locationDMS],
                        image_urls |-> <<uploadedImage>>])
         EXCEPT !.pc = "generating"]

\* OnUploadRejected with the rejection swallowed: the handler goes on to
\* fal.subscribe without an uploaded image.
OnUploadRejected_GeneratesAnyway(rq, err) ==
    [Did(Did(rq, [op |-> "upload.rejected"]),
         [op |-> "fal.subscribe",
          prompt |-> [location |-> convertToDMS(parseFloat(rq.body.lat),
                                                parseFloat(rq.body.lng))],
          image_urls |-> <<Undefined>>])
     EXCEPT !.pc = "generating"]

\* OnUploadRejected with one retry of the upload before giving up.
OnUploadRejected_RetriesOnce(rq, err) ==
    IF rq.trace[Len(rq.trace)].op = "storage.upload"
       /\ Cardinality({i \in 1..Len(rq.trace) : rq.trace[i].op = "storage.upload"}) = 1
    THEN [Did(Did(rq, [op |-> "upload.rejected"]), rq.trace[Len(rq.trace)])
          EXCEPT !.pc = "uploading"]
    ELSE Catch(Did(rq, [op |-> "upload.rejected"]), err)

\* The upload rejected: the await throws into the catch block.
OnUploadRejected(rq, err) ==
    Catch(Did(rq, [op |-> "upload.rejected"]), err)

\* fal.subscribe rejected: the await throws into the catch block.
OnSubscribeRejected(rq, err) ==
    Catch(Did(rq, [op |-> "subscribe.rejected"]), err)

\* fs.unlinkSync(path): removes the file, or throws and leaves the disk alone.
unlinkSync(dsk, path, unlinkOk) ==
    IF path \in DOMAIN dsk /\ unlinkOk
    THEN [disk |-> [p \in DOMAIN dsk \ {path} |-> dsk[p]], threw |-> FALSE]
    ELSE [disk |-> dsk, threw |-> TRUE]

\* RespondAndCleanup with the two steps exchanged: the temp file is removed
\* before the answer is sent.
RespondAndCleanup_CleanupFirst(rq, dsk, generatedImageUrl, requestId, unlinkOk) ==
    LET gone == unlinkSync(dsk, rq.file.path, unlinkOk)
        tidy == Did(rq, [op |-> "unlinkSync", path |-> rq.file.path,
                         ok |-> ~gone.threw])
        sent == resJson(tidy, 200,
                        [success |-> TRUE, imageUrl |-> generatedImageUrl,
                         message |-> <<"Image generated successfully with fal.ai">>,
                         requestId |-> requestId])
    IN  IF gone.threw
        THEN [rq |-> Catch(tidy, UnlinkError), disk |-> gone.disk]
        ELSE [rq |-> [sent.rq EXCEPT !.pc = "done"], disk |-> gone.disk]

\* Lines 109-120: the success answer, then the cleanup of the temp file.
RespondAndCleanup(rq, dsk, generatedImageUrl, requestId, unlinkOk) ==
    LET sent == resJson(rq, 200,
                        [success |-> TRUE, imageUrl |-> generatedImageUrl,
                         message |-> <<"Image generated successfully with fal.ai">>,
                         requestId |-> requestId])
        gone == unlinkSync(dsk, rq.file.path, unlinkOk)
        tidy == Did(sent.rq, [op |-> "unlinkSync", path |-> rq.file.path,
                              ok |-> ~gone.threw])
    IN  IF sent.threw
        THEN [rq |-> Catch(sent.rq, [message |-> "ERR_HTTP_HEADERS_SENT"]),
              disk |-> dsk]
        ELSE IF gone.threw
        THEN [rq |-> Catch(tidy, UnlinkError), disk |-> gone.disk]
        ELSE [rq |-> [tidy EXCEPT !.pc = "done"], disk |-> gone.disk]

\* OnSubscribeResolved with the temp file removed on the failure path too,
\* before the error is thrown.
OnSubscribeResolved_CleanupOnFailure(rq, dsk, result, unlinkOk) ==
    LET got == Did(rq, [op |-> "subscribe.resolved", result |-> result])
        generatedImageUrl == ExtractImageUrl(result)
        gone == unlinkSync(dsk, rq.file.path, unlinkOk)
        tidy == Did(got, [op |-> "unlinkSync", path |-> rq.file.path,
                          ok |-> ~gone.threw])
    IN  IF ~Truthy(generatedImageUrl)
        THEN [rq |-> Catch(tidy, [message |-> "No image generated"]),
              disk |-> gone.disk]
        ELSE RespondAndCleanup(got, dsk, generatedImageUrl, result.requestId,
                               unlinkOk)

\* Lines 98-120: fal.subscribe resolved.
OnSubscribeResolved(rq, dsk, result, unlinkOk) ==
    LET got == Did(rq, [op |-> "subscribe.resolved", result |-> result])
        generatedImageUrl == ExtractImageUrl(result)
    IN  IF ~Truthy(generatedImageUrl)
        THEN [rq |-> Catch(got, [message |-> "No image generated"]), disk |-> dsk]
        ELSE RespondAndCleanup(got, dsk, generatedImageUrl, result.requestId,
                               unlinkOk)

(***************************************************************************)
(* Actions of the relay.                                                   *)
(***************************************************************************)
Absent == [pc |-> "absent", body |-> Undefined, image |-> Undefined,
           file |-> NoFile, res |-> NoResponse, trace |-> <<>>]

\* A client's request arrives (in the order of the request ids) and passes
\* the multer middleware.
Receive(r, input) ==
    /\ req[r].pc = "absent"
    /\ \A q \in ReqIds : q < r => req[q].pc # "absent"
    /\ LET m == MulterFile(r, input, disk)
       IN  /\ req' = [req EXCEPT ![r] =
                         [pc |-> "received",
                          body |-> [lat |-> input.lat, lng |-> input.lng],
                          image |-> input.image,
                          file |-> m.file, res |-> NoResponse, trace |-> <<>>]]
           /\ disk' = m.disk
    /\ UNCHANGED <<dmsVars, clientVars>>

Handle(r, readOk) ==
    /\ req[r].pc = "received"
    /\ req' = [req EXCEPT ![r] = HandlerStart(req[r], disk, readOk)]
    /\ UNCHANGED <<disk, dmsVars, clientVars>>

UploadResolves(r) ==
    /\ req[r].pc = "uploading"
    /\ req' = [req EXCEPT ![r] = OnUploadResolved(req[r], StoredUrl(r))]
    /\ UNCHANGED <<disk, dmsVars, clientVars>>

UploadRejects(r) ==
    /\ req[r].pc = "uploading"
    /\ req' = [req EXCEPT ![r] = OnUploadRejected(req[r], UploadError)]
    /\ UNCHANGED <<disk, dmsVars, clientVars>>

SubscribeResolves(r, result, unlinkOk) ==
    /\ req[r].pc = "generating"
    /\ LET n == OnSubscribeResolved(req[r], disk, result, unlinkOk)
       IN  /\ req' = [req EXCEPT ![r] = n.rq]
           /\ disk' = n.disk
    /\ UNCHANGED <<dmsVars, clientVars>>

SubscribeRejects(r) ==
    /\ req[r].pc = "generating"
    /\ req' = [req EXCEPT ![r] = OnSubscribeRejected(req[r], GenError)]
    /\ UNCHANGED <<disk, dmsVars, clientVars>>

RelayStep(r, results) ==
    \/ \E input \in RequestInputs : Receive(r, input)
    \/ \E readOk \in BOOLEAN : Handle(r, readOk)
    \/ UploadResolves(r)
    \/ UploadRejects(r)
    \/ \E result \in results, unlinkOk \in BOOLEAN :
           SubscribeResolves(r, result, unlinkOk)
    \/ SubscribeRejects(r)

RelayInit ==
    /\ req = [r \in ReqIds |-> Absent]
    /\ disk = <<>>

DMSIdle ==
    /\ dmsLat = 0
    /\ dmsLng = 0
    /\ dmsOut = Undefined

\* The page not opened.
ClientIdle ==
    /\ photo = Null
    /\ selectedLocation = Null
    /\ imageFile = Null
    /\ imagePreview = Null
    /\ generatedImage = Null
    /\ loading = FALSE
    /\ error = Null
    /\ localStorage = Null
    /\ tasks = EmptyBag
    /\ timers = <<>>

\* Concurrent requests; every generation result carries real URLs, in an
\* images list of at most one entry or in the singular field, or nothing.
Init == RelayInit /\ DMSIdle /\ ClientIdle
Next == \E r \in ReqIds : RelayStep(r, GenResults(r, 1, {"url"}))
Spec == Init /\ [][Next]_vars

\* One request, every shape of generation result.
NextOneRequest == RelayStep(1, GenResults(1, MaxImages, UrlKinds))
SpecOneRequest == Init /\ [][NextOneRequest]_vars

(***************************************************************************)
(* convertToDMS on its own: the handler's                                  *)
(*   convertToDMS(parseFloat(lat), parseFloat(lng))                        *)
(* for lat / lng strings over the whole coordinate range.  The two axes    *)
(* are formatted independently, so each runs over a fine grid while the    *)
(* other is held fixed.  The grid holds every multiple of 0.05 degrees (a   *)
(* whole number of minutes) and the value 0.0001 below it.                 *)
(***************************************************************************)
MaxGridIndex == 3600

GridStep == Scale \div 20
MaxLat == 90 * Scale
MaxLng == 180 * Scale

GridValues(limit) ==
    {v \in {g * GridStep + o : g \in (-MaxGridIndex)..MaxGridIndex, o \in {-1, 0}}
       : -limit <= v /\ v <= limit}

\* The coordinate pairs the documentation works through.
ExampleInputs == {<<0, 0>>, <<251972, 552744>>, <<-338688, 1512093>>}

DMSInputs ==
    (GridValues(MaxLat) \X {552744}) \cup ({251972} \X GridValues(MaxLng))
    \cup ExampleInputs

DMSInit ==
    /\ RelayInit
    /\ ClientIdle
    /\ \E p \in DMSInputs : dmsLat = p[1] /\ dmsLng = p[2]
    /\ dmsOut = Undefined

Format ==
    /\ dmsOut = Undefined
    /\ dmsOut' = convertToDMS(parseFloat(dmsLat), parseFloat(dmsLng))
    /\ UNCHANGED <<relayVars, dmsLat, dmsLng, clientVars>>

SpecDMS == DMSInit /\ [][Format]_vars

(***************************************************************************)
(* The client: the App component.  Its React state is selectedLocation,    *)
(* imageFile, imagePreview, generatedImage, loading and error.  The        *)
(* asynchronous work not yet run is held with the values its callback      *)
(* closed over: timers is the timers set and not yet fired, in the order   *)
(* they were set; tasks is a bag of everything else (the mount effect,     *)
(* FileReader loads, fetches of a data URL, POSTs).  Two equal pieces of   *)
(* work are two entries, and each runs once.  What is pending runs in any  *)
(* order, between any two events of the user, except that timers keep the  *)
(* order of their due times.                                               *)
(***************************************************************************)
\* Asynchronous work that may be outstanding when the user acts again.
MaxPending == 2

Pending == BagCardinality(tasks) + Len(timers)

\* The delay a timer was set with.
Delay(timer) == IF timer.kind = "setSelectedLocation" THEN 0 ELSE 100

\* The timer at position i may fire when no timer set before it falls due
\* as early: timers run in the order of their due times, and timers of one
\* delay in the order they were set.
TimerReady(i) ==
    \A j \in 1..(i - 1) : Delay(timers[j]) > Delay(timers[i])

\* The timers without the one at position i.
OtherTimers(i) == SubSeq(timers, 1, i - 1) \o SubSeq(timers, i + 1, Len(timers))

\* The popup is rendered for a selected location; the upload box and the
\* generate button are inside it while no generated image is shown.
PopupShown  == selectedLocation # Null
UploadShown == PopupShown /\ generatedImage = Null

ClientInit ==
    /\ photo \in UserFiles
    /\ selectedLocation = Null
    /\ imageFile = Null
    /\ imagePreview = Null
    /\ generatedImage = Null
    /\ loading = FALSE
    /\ error = Null
    /\ localStorage \in StoredAtStart(photo)
    /\ tasks = SetToBag({[kind |-> "useEffect"]})
    /\ timers = <<>>

\* loadSavedImage up to its first await.
LoadSavedImage ==
    /\ BagIn([kind |-> "useEffect"], tasks)
    /\ LET savedImage == localStorage
           rest == tasks (-) SetToBag({[kind |-> "useEffect"]})
       IN  IF savedImage # Null
           THEN /\ imagePreview' = savedImage
                /\ tasks' = rest (+) SetToBag({[kind |-> "loadSavedImage",
                                                url |-> savedImage]})
           ELSE /\ tasks' = rest
                /\ UNCHANGED imagePreview
    /\ UNCHANGED <<selectedLocation, imageFile, generatedImage, loading, error,
                   localStorage, timers, relayVars, dmsVars, photo>>

\* loadSavedImage after its awaits: the rebuilt file, or the catch block.
SavedImageLoaded(task) ==
    /\ BagIn(task, tasks)
    /\ task.kind = "loadSavedImage"
    /\ tasks' = tasks (-) SetToBag({task})
    /\ \E got \in Fetched(task.url) :
           IF got.ok
           THEN /\ imageFile' = NewFile(got.blob)
                /\ UNCHANGED <<imagePreview, localStorage>>
           ELSE /\ localStorage' = Null
                /\ imagePreview' = Null
                /\ UNCHANGED imageFile
    /\ UNCHANGED <<selectedLocation, generatedImage, loading, error, timers,
                   relayVars, dmsVars, photo>>

\* The part the map click and the search result share: the location is
\* cleared and set again from a timer, the generated image and error cleared.
SelectLocation(loc) ==
    /\ Pending < MaxPending
    /\ selectedLocation' = Null
    /\ timers' = Append(timers, [kind |-> "setSelectedLocation", loc |-> loc])
    /\ generatedImage' = Null
    /\ error' = Null
    /\ UNCHANGED <<imageFile, imagePreview, loading, localStorage, tasks,
                   relayVars, dmsVars, photo>>

onMapClick(loc) == SelectLocation(loc)

place_changed(loc) == SelectLocation(loc)

\* setTimeout(() => setSelectedLocation({ lat, lng }), 0)
SelectTimerFires(i) ==
    /\ i \in DOMAIN timers
    /\ timers[i].kind = "setSelectedLocation"
    /\ TimerReady(i)
    /\ timers' = OtherTimers(i)
    /\ selectedLocation' = timers[i].loc
    /\ UNCHANGED <<imageFile, imagePreview, generatedImage, loading, error,
                   localStorage, tasks, relayVars, dmsVars, photo>>

\* The file input is reached through the upload box, which ignores clicks
\* while loading.
handleImageUpload(file) ==
    /\ UploadShown
    /\ ~loading
    /\ Pending < MaxPending
    /\ imageFile' = file
    /\ tasks' = tasks (+) SetToBag({[kind |-> "FileReader", file |-> file]})
    /\ UNCHANGED <<selectedLocation, imagePreview, generatedImage, loading,
                   error, localStorage, timers, relayVars, dmsVars, photo>>

\* How a read ends: with the data URL as reader.result, or in an error
\* (the file is gone or may not be read) with reader.result null.
ReadOutcomes == {"load", "error"}

\* reader.onloadend, which runs after a read that failed too, and uses
\* reader.result unchecked.
ReaderLoadEnd(task, read) ==
    /\ BagIn(task, tasks)
    /\ task.kind = "FileReader"
    /\ tasks' = tasks (-) SetToBag({task})
    /\ LET base64String == IF read = "load" THEN readAsDataURL(task.file)
                                              ELSE Null
       IN  /\ imagePreview' = base64String
           /\ localStorage' = setItem(localStorage, base64String)
    /\ UNCHANGED <<selectedLocation, imageFile, generatedImage, loading, error,
                   timers, relayVars, dmsVars, photo>>

handleDeleteImage ==
    /\ UploadShown
    /\ imagePreview # Null
    /\ ~loading
    /\ imageFile' = Null
    /\ imagePreview' = Null
    /\ localStorage' = Null
    /\ UNCHANGED <<selectedLocation, generatedImage, loading, error, tasks,
                   timers, relayVars, dmsVars, photo>>

\* The values a render's handleGenerate closes over.
Closure == [selectedLocation |-> selectedLocation, imageFile |-> imageFile,
            imagePreview |-> imagePreview]

\* handleGenerate up to its first await, run with the values of closure c.
handleGenerate(c) ==
    IF c.selectedLocation = Null
    THEN UNCHANGED <<tasks, loading, error>>
    ELSE IF c.imageFile = Null /\ c.imagePreview # Null
    THEN /\ tasks' = tasks (+) SetToBag({[kind |-> "rebuild", closure |-> c]})
         /\ UNCHANGED <<loading, error>>
    ELSE IF c.imageFile = Null
    THEN UNCHANGED <<tasks, loading, error>>
    ELSE /\ loading' = TRUE
         /\ error' = Null
         /\ tasks' = tasks (+) SetToBag(
                {[kind |-> "axios.post",
                  formData |-> [lat |-> c.selectedLocation.lat,
                                lng |-> c.selectedLocation.lng,
                                image |-> c.imageFile]]})

\* The generate button, disabled without a file and a preview or while
\* loading.
ClickGenerate ==
    /\ UploadShown
    /\ ~((imageFile = Null /\ imagePreview = Null) \/ loading)
    /\ Pending < MaxPending
    /\ handleGenerate(Closure)
    /\ UNCHANGED <<selectedLocation, imageFile, imagePreview, generatedImage,
                   localStorage, timers, relayVars, dmsVars, photo>>

\* handleGenerate's rebuild after its awaits: the file is set and the same
\* closure is scheduled again, or the catch block shows an error.
PreviewRebuilt(task) ==
    /\ BagIn(task, tasks)
    /\ task.kind = "rebuild"
    /\ tasks' = tasks (-) SetToBag({task})
    /\ \E got \in Fetched(task.closure.imagePreview) :
           IF got.ok
           THEN /\ imageFile' = NewFile(got.blob)
                /\ timers' = Append(timers, [kind |-> "retry",
                                             closure |-> task.closure])
                /\ UNCHANGED error
           ELSE /\ error' = Str(<<"Error loading image. Please re-upload.">>)
                /\ UNCHANGED <<imageFile, timers>>
    /\ UNCHANGED <<selectedLocation, imagePreview, generatedImage, loading,
                   localStorage, relayVars, dmsVars, photo>>

\* setTimeout(() => handleGenerate(), 100)
RetryTimerFires(i) ==
    /\ i \in DOMAIN timers
    /\ timers[i].kind = "retry"
    /\ TimerReady(i)
    /\ timers' = OtherTimers(i)
    /\ handleGenerate(timers[i].closure)
    /\ UNCHANGED <<selectedLocation, imageFile, imagePreview, generatedImage,
                   localStorage, relayVars, dmsVars, photo>>

\* The URL the relay answers a form with.
ImageUrlFor(formData) ==
    [t |-> "url", lat |-> formData.lat, lng |-> formData.lng]

\* axios.post settles: a body with imageUrl, a body without, or a rejection.
PostOutcomes == {"imageUrl", "no imageUrl", "rejected"}

PostSettles(task, outcome) ==
    /\ BagIn(task, tasks)
    /\ task.kind = "axios.post"
    /\ tasks' = tasks (-) SetToBag({task})
    /\ IF outcome = "imageUrl"
       THEN /\ generatedImage' = ImageUrlFor(task.formData)
            /\ UNCHANGED error
       ELSE IF outcome = "no imageUrl"
       THEN /\ error' = Str(<<"Failed to generate image. No URL returned.">>)
            /\ UNCHANGED generatedImage
       ELSE /\ error' = Str(<<"Failed to generate image. Please try again.">>)
            /\ UNCHANGED generatedImage
    /\ loading' = FALSE
    /\ UNCHANGED <<selectedLocation, imageFile, imagePreview, localStorage,
                   timers, relayVars, dmsVars, photo>>

\* The popup's close button and its onClose.
resetSelection ==
    /\ PopupShown
    /\ selectedLocation' = Null
    /\ generatedImage' = Null
    /\ imageFile' = Null
    /\ UNCHANGED <<imagePreview, loading, error, localStorage, tasks, timers,
                   relayVars, dmsVars, photo>>

\* The "Try Again" button under a generated image.
TryAgain ==
    /\ PopupShown
    /\ generatedImage # Null
    /\ generatedImage' = Null
    /\ UNCHANGED <<selectedLocation, imageFile, imagePreview, loading, error,
                   localStorage, tasks, timers, relayVars, dmsVars, photo>>

\* The page is opened again: the component starts afresh and its mount
\* effect is due; the item in localStorage is what the last visit left;
\* what was pending on the old page is gone with it.
Reload ==
    /\ selectedLocation' = Null
    /\ imageFile' = Null
    /\ imagePreview' = Null
    /\ generatedImage' = Null
    /\ loading' = FALSE
    /\ error' = Null
    /\ tasks' = SetToBag({[kind |-> "useEffect"]})
    /\ timers' = <<>>
    /\ UNCHANGED <<localStorage, relayVars, dmsVars, photo>>

ClientNext ==
    \/ LoadSavedImage
    \/ \E task \in BagToSet(tasks) : SavedImageLoaded(task)
    \/ \E loc \in Locations : onMapClick(loc)
    \/ \E loc \in Locations : place_changed(loc)
    \/ \E i \in DOMAIN timers : SelectTimerFires(i)
    \/ handleImageUpload(photo)
    \/ \E task \in BagToSet(tasks), read \in ReadOutcomes :
           ReaderLoadEnd(task, read)
    \/ handleDeleteImage
    \/ ClickGenerate
    \/ \E task \in BagToSet(tasks) : PreviewRebuilt(task)
    \/ \E i \in DOMAIN timers : RetryTimerFires(i)
    \/ \E task \in BagToSet(tasks), outcome \in PostOutcomes :
           PostSettles(task, outcome)
    \/ resetSelection
    \/ TryAgain

\* The page opened, the relay and the formatter left aside.
InitClient == RelayInit /\ DMSIdle /\ ClientInit
SpecClient == InitClient /\ [][ClientNext]_vars

\* The browser's event loop runs what is pending: the mount effect, due
\* timers, FileReader loads, fetches of a data URL and POSTs all come to an
\* end, however often the user's own events come in between.  Nothing
\* makes the user act.
ClientFairness ==
    /\ SF_vars(LoadSavedImage)
    /\ SF_vars(\E task \in BagToSet(tasks) : SavedImageLoaded(task))
    /\ SF_vars(\E i \in DOMAIN timers : SelectTimerFires(i))
    /\ SF_vars(\E task \in BagToSet(tasks), read \in ReadOutcomes :
                   ReaderLoadEnd(task, read))
    /\ SF_vars(\E task \in BagToSet(tasks) : PreviewRebuilt(task))
    /\ SF_vars(\E i \in DOMAIN timers : RetryTimerFires(i))
    /\ SF_vars(\E task \in BagToSet(tasks), outcome \in PostOutcomes :
                   PostSettles(task, outcome))

SpecClientFair == InitClient /\ [][ClientNext]_vars /\ ClientFairness

\* Visit after visit: the page may be opened again at any time.
ReopenNext ==
    \/ ClientNext
    \/ Reload
SpecClientReopened == InitClient /\ [][ReopenNext]_vars

(***************************************************************************)
(* Properties of the relay.                                                *)
(***************************************************************************)
Finished(rq) == rq.pc \in {"done", "escaped"}

\* Positions in the request's trace where the handler performed op.
Ops(rq, op) == {i \in 1..Len(rq.trace) : rq.trace[i].op = op}

FailureBody(message) == [error |-> <<"Failed to generate image. ", message>>]

\* C1: fal.subscribe is called only after the same request's
\* fal.storage.upload has resolved (and with the URL it resolved to); when the
\* upload rejects, fal.subscribe is never called for the request and the
\* request ends with a failure response.
C1_GenerateOnlyAfterUpload ==
    \A r \in ReqIds :
        LET rq == req[r]
            t  == rq.trace
        IN  /\ \A i \in Ops(rq, "fal.subscribe") :
                   \E j \in 1..(i - 1) :
                       /\ t[j].op = "upload.resolved"
                       /\ t[i].image_urls = <<t[j].url>>
                       /\ \E k \in 1..(j - 1) : t[k].op = "storage.upload"
            /\ Ops(rq, "upload.rejected") # {} =>
                   /\ Ops(rq, "fal.subscribe") = {}
                   /\ Finished(rq)
                   /\ rq.res.headersSent
                   /\ rq.res.status = 500
                   /\ rq.res.body = FailureBody(UploadError.message)

\* C1 witness: one request's upload was rejected while another went on to
\* the generation call.
C1_Witness ==
    \E r, q \in ReqIds :
        /\ Ops(req[r], "upload.rejected") # {}
        /\ Ops(req[q], "fal.subscribe") # {}

\* C2: a request without an image, or with an image of zero bytes, ends in
\* a failure response (400 with an error body when the image is missing) and
\* calls neither the storage upload nor the generation service.
C2_NoImageNoExternalCalls ==
    \A r \in ReqIds :
        LET rq      == req[r]
            missing == rq.image.t = "undefined"
            empty   == IF missing THEN FALSE ELSE rq.image.bytes = <<>>
        IN  (rq.pc # "absent" /\ (missing \/ empty)) =>
                /\ Ops(rq, "storage.upload") = {}
                /\ Ops(rq, "fal.subscribe") = {}
                /\ Finished(rq) =>
                       /\ rq.res.headersSent
                       /\ rq.res.status >= 400
                       /\ DOMAIN rq.res.body = {"error"}
                       /\ missing => rq.res.status = 400

\* Whether the handler met a failure after the image was received.
FailedAfterReceipt(rq) ==
    \E i \in 1..Len(rq.trace) :
        LET e == rq.trace[i]
        IN  \/ e.op \in {"readFileSync", "unlinkSync"} /\ ~e.ok
            \/ e.op \in {"upload.rejected", "subscribe.rejected"}
            \/ e.op = "subscribe.resolved" /\ ~Truthy(ExtractImageUrl(e.result))

\* C3: every failure met after the image was received (reading the temp
\* file, the upload, the generation call, no usable URL, the cleanup) is
\* caught and reaches the client as status 500 with the body
\* {error: 'Failed to generate image. ' + message}; none escapes the handler.
C3_EveryFailureBecomes500 ==
    \A r \in ReqIds :
        LET rq == req[r]
        IN  FailedAfterReceipt(rq) =>
                /\ rq.pc = "done"
                /\ rq.res.headersSent
                /\ rq.res.status = 500
                /\ DOMAIN rq.res.body = {"error"}
                /\ rq.res.body.error[1] = "Failed to generate image. "

\* The url of a generation result as the claim C4 reads it: the first usable
\* url anywhere in the images list, else the singular image's url.
FirstUsableInList(result) ==
    LET d    == result.data
        list == IF d.t = "undefined" THEN <<>>
                ELSE IF d.images.t = "undefined" THEN <<>>
                ELSE d.images.v
        good == {i \in 1..Len(list) : Truthy(list[i].url)}
        one  == IF d.t = "undefined" THEN Undefined
                ELSE IF d.image.t = "undefined" THEN Undefined
                ELSE d.image.url
    IN  IF good # {} THEN list[CHOOSE i \in good : \A j \in good : i <= j].url
        ELSE one

\* The url as amended: the url of the images list's first entry when that is
\* usable, else the singular image's url.
FirstEntryOrSingular(result) ==
    LET d    == result.data
        list == IF d.t = "undefined" THEN <<>>
                ELSE IF d.images.t = "undefined" THEN <<>>
                ELSE d.images.v
        head == IF list = <<>> THEN Undefined ELSE list[1].url
        one  == IF d.t = "undefined" THEN Undefined
                ELSE IF d.image.t = "undefined" THEN Undefined
                ELSE d.image.url
    IN  IF Truthy(head) THEN head ELSE one

\* The relay answers the generation result with url: success carrying url
\* and the tracking id when url is usable, 'No image generated' otherwise.
AnswersWith(rq, result, url) ==
    IF Truthy(url)
    THEN /\ rq.res.status = 200
         /\ rq.res.body.success
         /\ rq.res.body.imageUrl = url
         /\ rq.res.body.requestId = result.requestId
    ELSE /\ rq.res.status = 500
         /\ rq.res.body = FailureBody("No image generated")

\* C4 as claimed: the relay's imageUrl is the first usable url found in the
\* images list, else the singular image's url; success exactly when there is
\* one, 'No image generated' otherwise.
C4_FirstUsableUrlOfList ==
    \A r \in ReqIds :
        \A i \in Ops(req[r], "subscribe.resolved") :
            LET result == req[r].trace[i].result
            IN  AnswersWith(req[r], result, FirstUsableInList(result))

\* C4 amended: the relay's imageUrl is the url of the first entry of the
\* images list when that url is usable, else the singular image's url; it
\* answers success with that url and the tracking id exactly when that url
\* is usable, and 'No image generated' otherwise.
C4_FirstEntryUrl ==
    \A r \in ReqIds :
        \A i \in Ops(req[r], "subscribe.resolved") :
            LET result == req[r].trace[i].result
            IN  AnswersWith(req[r], result, FirstEntryOrSingular(result))

\* C4 witness: the list's first url is empty, a later one is usable, and the
\* relay answered with the singular image's url.
C4_Witness ==
    \E i \in Ops(req[1], "subscribe.resolved") :
        LET d == req[1].trace[i].result.data
        IN  /\ d.t = "object"
            /\ d.images.t = "array"
            /\ Len(d.images.v) = 2
            /\ d.images.v[1].url = Str(<<>>)
            /\ Truthy(d.images.v[2].url)
            /\ req[1].res.status = 200
            /\ req[1].res.body.imageUrl = GenUrl(1, 0)

Sent200(rq) ==
    {i \in Ops(rq, "res.json") : rq.trace[i].status = 200 /\ rq.trace[i].sent}

\* C5 as claimed: on every success path the temp file is deleted, and only
\* after the success response was sent.
C5_DeletedAfterSuccess ==
    \A r \in ReqIds :
        LET rq == req[r]
        IN  /\ (Finished(rq) /\ rq.res.status = 200) =>
                   rq.file.path \notin DOMAIN disk
            /\ \A i \in Ops(rq, "unlinkSync") : \E j \in Sent200(rq) : j < i

\* C5 amended: on every success path the handler calls unlinkSync on the
\* request's temp file exactly once, and only after the success response was
\* sent; the file is gone when that call returns and is still there when it
\* throws.
C5_CleanupAfterResponse ==
    \A r \in ReqIds :
        LET rq == req[r]
            t  == rq.trace
        IN  /\ (Finished(rq) /\ rq.res.status = 200) =>
                   Cardinality(Ops(rq, "unlinkSync")) = 1
            /\ \A i \in Ops(rq, "unlinkSync") :
                   /\ \E j \in Sent200(rq) : j < i
                   /\ t[i].path = rq.file.path
                   /\ t[i].ok <=> rq.file.path \notin DOMAIN disk

\* C5 witness: a success response was sent and the temp file then removed.
C5_Witness ==
    \E r \in ReqIds :
        /\ req[r].pc = "done"
        /\ req[r].res.status = 200
        /\ Ops(req[r], "unlinkSync") # {}
        /\ req[r].file.path \notin DOMAIN disk

\* The failures the handler can meet between receiving the image and
\* answering: the upload rejected, the generation call rejected, or a result
\* without a usable URL.
FailedBeforeAnswer(rq) ==
    \E i \in 1..Len(rq.trace) :
        LET e == rq.trace[i]
        IN  \/ e.op \in {"upload.rejected", "subscribe.rejected"}
            \/ e.op = "subscribe.resolved" /\ ~Truthy(ExtractImageUrl(e.result))

\* C11: the temp file is cleaned up on the success path only.  A request
\* that received an image and then failed (upload rejected, generation
\* rejected, no usable URL) finishes with a 500 response, has never called
\* unlinkSync, and its temp file is still on disk with the uploaded bytes;
\* and unlinkSync is never called by a request that has not sent its success
\* response.
C11_NoCleanupOnFailure ==
    \A r \in ReqIds :
        LET rq == req[r]
        IN  /\ (Finished(rq) /\ FailedBeforeAnswer(rq)) =>
                   /\ rq.res.status = 500
                   /\ Ops(rq, "unlinkSync") = {}
                   /\ rq.file.path \in DOMAIN disk
                   /\ disk[rq.file.path] = rq.image.bytes
            /\ Ops(rq, "unlinkSync") # {} => Sent200(rq) # {}

\* C11 witness: a request whose generation result held no usable URL has
\* been answered 500 and its temp file is still on disk, while another
\* request succeeded and removed its own.
C11_Witness ==
    \E r, q \in ReqIds :
        /\ req[r].pc = "done"
        /\ req[r].res.status = 500
        /\ Ops(req[r], "subscribe.resolved") # {}
        /\ req[r].file.path \in DOMAIN disk
        /\ req[q].pc = "done"
        /\ req[q].res.status = 200
        /\ req[q].file.path \notin DOMAIN disk

\* C6: within one request the storage upload and the generation service are
\* each called at most once, and a finished request has sent exactly one
\* response: a complete success (imageUrl and tracking id) or an error
\* message, never a mixture.
C6_NoRetryNoPartialResult ==
    \A r \in ReqIds :
        LET rq == req[r]
        IN  /\ Cardinality(Ops(rq, "storage.upload")) <= 1
            /\ Cardinality(Ops(rq, "fal.subscribe")) <= 1
            /\ Finished(rq) =>
                   /\ Cardinality({i \in Ops(rq, "res.json") : rq.trace[i].sent}) = 1
                   /\ \/ /\ rq.res.status = 200
                         /\ DOMAIN rq.res.body =
                                {"success", "imageUrl", "message", "requestId"}
                         /\ rq.res.body.success
                         /\ Truthy(rq.res.body.imageUrl)
                         /\ Truthy(rq.res.body.requestId)
                      \/ /\ rq.res.status \in {400, 500}
                         /\ DOMAIN rq.res.body = {"error"}

\* C6 witness: one request ended in an error after its upload was rejected,
\* another in a success.
C6_Witness ==
    \E r, q \in ReqIds :
        /\ Finished(req[r])
        /\ Ops(req[r], "upload.rejected") # {}
        /\ req[r].res.status = 500
        /\ Finished(req[q])
        /\ req[q].res.status = 200

\* C13: the handler answers each request exactly once.  It calls res.json at
\* most once, every call it makes goes out (none is made after the headers
\* were sent), and a finished request has made exactly one; in particular a
\* cleanup that throws after the success response is not followed by an
\* attempt to send a 500.
C13_ExactlyOneResponse ==
    \A r \in ReqIds :
        LET rq == req[r]
        IN  /\ Cardinality(Ops(rq, "res.json")) <= 1
            /\ \A i \in Ops(rq, "res.json") : rq.trace[i].sent
            /\ Finished(rq) => Cardinality(Ops(rq, "res.json")) = 1

\* convertToDMS of each location a request may carry.
SampleDMS ==
    [c \in CoordSamples |-> convertToDMS(parseFloat(c[1]), parseFloat(c[2]))]

\* C9: concurrent requests do not share anything.  Each uploads the bytes it
\* was sent, generates from the URL its own upload returned and the location
\* it was sent, and answers with its own generation's URL and tracking id; a
\* request that succeeded made its own upload and its own generation call;
\* no two requests have the same temp file, and a request's temp file stays
\* on disk with its bytes until the request itself removes it.
C9_RequestsIndependent ==
    \A r \in ReqIds :
        LET rq == req[r]
            t  == rq.trace
        IN  /\ \A i \in 1..Len(t) :
                   /\ t[i].op = "storage.upload" =>
                          /\ t[i].data = rq.image.bytes
                          /\ t[i].mimetype = rq.image.mimetype
                   /\ t[i].op = "fal.subscribe" =>
                          /\ t[i].image_urls = <<StoredUrl(r)>>
                          /\ t[i].prompt.location =
                                 SampleDMS[<<rq.body.lat, rq.body.lng>>]
                   /\ t[i].op = "unlinkSync" => t[i].path = TempPath(r)
            /\ rq.res.status = 200 =>
                   /\ rq.res.body.imageUrl \in {GenUrl(r, s) : s \in 0..MaxImages}
                   /\ rq.res.body.requestId = GenRequestId(r)
                   /\ Cardinality(Ops(rq, "storage.upload")) = 1
                   /\ Cardinality(Ops(rq, "fal.subscribe")) = 1
            /\ Truthy(rq.file) =>
                   /\ \A q \in ReqIds \ {r} :
                          Truthy(req[q].file) => req[q].file.path # rq.file.path
                   /\ {i \in Ops(rq, "unlinkSync") : t[i].ok} = {} =>
                          /\ rq.file.path \in DOMAIN disk
                          /\ disk[rq.file.path] = rq.image.bytes

\* C9 witness: two requests with the same photo and location were in flight
\* together and each got its own result.
C9_Witness ==
    /\ req[1].pc = "done"
    /\ req[2].pc = "generating"
    /\ req[1].image = req[2].image
    /\ req[1].body = req[2].body
    /\ req[1].res.status = 200
    /\ Len(req[1].trace) > 0
    /\ req[1].trace[1].op = "readFileSync"
    /\ Ops(req[2], "fal.subscribe") # {}

(***************************************************************************)
(* Properties of convertToDMS.                                             *)
(***************************************************************************)

\* One axis by the documented algorithm on the decimal value n / Scale, in
\* exact arithmetic: degrees = floor(|v|), minutes = floor((|v| - degrees) *
\* 60), seconds = round(((|v| - degrees) * 60 - minutes) * 60).
ExactAxis(n) ==
    LET a   == IF n < 0 THEN -n ELSE n
        rem == a % Scale
        min == (rem * 60) \div Scale
        num == rem * 3600 - min * 60 * Scale
    IN  [deg |-> a \div Scale, min |-> min,
         sec |-> (2 * num + Scale) \div (2 * Scale)]

ExactDMS(lat, lng) ==
    LET la == ExactAxis(lat)
        lo == ExactAxis(lng)
    IN  [latDeg |-> la.deg, latMin |-> la.min, latSec |-> la.sec,
         latDir |-> IF lat >= 0 THEN "N" ELSE "S",
         lngDeg |-> lo.deg, lngMin |-> lo.min, lngSec |-> lo.sec,
         lngDir |-> IF lng >= 0 THEN "E" ELSE "W"]

Formatted == dmsOut # Undefined

\* C7: for every coordinate pair in range convertToDMS returns, per axis,
\* degrees = floor(|v|), minutes = floor((|v| - degrees) * 60), seconds =
\* round(((|v| - degrees) * 60 - minutes) * 60), with N / S and E / W by sign
\* (zero non-negative); (0,0) and (25.1972, 55.2744) among them.
C7_DocumentedAlgorithm ==
    Formatted => dmsOut = ExactDMS(dmsLat, dmsLng)

\* C8: latitude degrees lie in [0,90], longitude degrees in [0,180], minutes
\* in [0,59] and seconds in [0,59], except that seconds may be 60, which is
\* then emitted as it is with the minutes not carried.
C8_FieldRanges ==
    Formatted =>
        /\ dmsOut.latDeg \in 0..90
        /\ dmsOut.lngDeg \in 0..180
        /\ dmsOut.latMin \in 0..59
        /\ dmsOut.lngMin \in 0..59
        /\ dmsOut.latSec \in 0..60
        /\ dmsOut.lngSec \in 0..60

\* C8 witness: 0.9999 degrees short of a degree is formatted with seconds
\* rounded up to 60 and the minutes left at 59.
C8_Witness ==
    /\ Formatted
    /\ dmsLat = 259999
    /\ dmsOut.latDeg = 25
    /\ dmsOut.latMin = 59
    /\ dmsOut.latSec = 60


(***************************************************************************)
(* Properties of the client.                                               *)
(***************************************************************************)
\* The forms of the POSTs in flight.
FormsInFlight ==
    {task.formData : task \in {k \in BagToSet(tasks) : k.kind = "axios.post"}}

\* Files made by new File([blob], 'uploaded-image.jpg', ...): decoded from
\* the stored item at startup or from the preview by handleGenerate.
Decoded(file) == file # Null /\ file.name = "uploaded-image.jpg"

\* The file holds the bytes of the upload it comes from.  (origin is set
\* when the user picks a file and carried along unread; bytes is what the
\* encoding and the decoding computed.)
HoldsUpload(file) == "origin" \in DOMAIN file /\ file.bytes = file.origin

\* The item is a base64 data URL whose decoding gives these bytes.
DecodesTo(item, bytes) ==
    /\ item.t = "dataurl"
    /\ FetchBlob(item).ok
    /\ FetchBlob(item).blob.bytes = bytes

\* C10: for every uploaded image, what handleImageUpload's read stores under
\* 'goplaces_uploaded_image' is a base64 data URL that decodes to the bytes
\* of that image; every File decoded from the stored value (by the startup
\* load or by handleGenerate's rebuild) holds the bytes of the uploaded
\* image, and so does the image of every POST sent to the relay.
C10_RoundTripPreservesBytes ==
    /\ []((Decoded(imageFile) => HoldsUpload(imageFile))
           /\ \A formData \in FormsInFlight : HoldsUpload(formData.image))
    /\ [][\A task \in BagToSet(tasks), read \in ReadOutcomes :
              ReaderLoadEnd(task, read) =>
                  DecodesTo(localStorage', task.file.bytes)]_vars

\* C14: a generated image on display was generated for the location now
\* selected: a response that arrives after the user moved to another
\* location is not shown in the new location's popup.
C14_ShownImageIsForSelection ==
    (generatedImage # Null /\ selectedLocation # Null) =>
        /\ generatedImage.lat = selectedLocation.lat
        /\ generatedImage.lng = selectedLocation.lng

\* handleGenerate is between a rebuild and its retry.
Retrying ==
    \/ \E task \in BagToSet(tasks) : task.kind = "rebuild"
    \/ \E i \in DOMAIN timers : timers[i].kind = "retry"

\* C12: handleGenerate's self-retry comes to an end.  Once it has started
\* rebuilding the file from the preview, the rebuild-and-retry rounds stop
\* after finitely many, with a request on its way to the relay or an error
\* on display.
C12_RetryTerminates ==
    Retrying ~> (~Retrying /\ (loading \/ error # Null))

=============================================================================
